---- MODULE Spec2Model ----
(***************************************************************************)
(* Model of bin/seasonal_annual_disp.py: seasonal and annual displacements *)
(* from GNSS data.  The module-level names xyz and xyzi, the four          *)
(* functions load_xyz, make_contiguous, backdate and calculate_disps, and  *)
(* the __main__ block that calls them in order.                            *)
(*                                                                         *)
(* Representation.                                                         *)
(*  - A timestamp on a table's index is a number of minutes since          *)
(*    2021-01-01 00:00; pd.Timestamp(y, m, d, H, M) is a record of its     *)
(*    calendar fields and ToMinutes converts it.                           *)
(*  - A floating-point coordinate is a fixed-point integer in units of     *)
(*    0.001; a quotient is truncated to that grid.  NaN is a sentinel.     *)
(*  - A DataFrame is the sequence of its rows in index order; an index     *)
(*    may hold the same timestamp twice, as a pandas index may.            *)
(*  - A call's outcome is a record: "return" with the value, or the name   *)
(*    of the exception that ends it.                                       *)
(***************************************************************************)
EXTENDS Integers, Sequences, FiniteSets, TLC

VARIABLES
  pc,      \* line of the __main__ block about to run, or "end" / "crashed"
  xyz,     \* module-level xyz (line 99)
  xyzi,    \* module-level xyzi (lines 100, 101)
  call,    \* the last call of make_contiguous / backdate: its arguments, its
           \* outcome and, for backdate, the x samples its fit was given
  frame,   \* the calculate_disps activation: its arguments, its locals and
           \* the (st, en) it resolved for each (year, period) so far
  disps    \* outcome of disps = calculate_disps(...) (line 103)

vars == <<pc, xyz, xyzi, call, frame, disps>>

----------------------------------------------------------------------------
(* Calendar: pd.Timestamp and its position on the time axis.               *)

NaN == -999999

Freq1H == 60

IsLeap(y) == (y % 4 = 0 /\ y % 100 # 0) \/ y % 400 = 0

DaysInMonth(y, m) ==
  CASE m \in {1, 3, 5, 7, 8, 10, 12} -> 31
    [] m \in {4, 6, 9, 11} -> 30
    [] OTHER -> IF IsLeap(y) THEN 29 ELSE 28

RECURSIVE DaysBeforeMonth(_, _)
DaysBeforeMonth(y, m) ==
  IF m = 1 THEN 0 ELSE DaysBeforeMonth(y, m - 1) + DaysInMonth(y, m - 1)

RECURSIVE DaysBeforeYear(_)
DaysBeforeYear(y) ==
  IF y <= 2021 THEN 0
  ELSE DaysBeforeYear(y - 1) + (IF IsLeap(y - 1) THEN 366 ELSE 365)

Timestamp(y, m, d, H, M) ==
  [year |-> y, month |-> m, day |-> d, hour |-> H, minute |-> M]

ToMinutes(ts) ==
  ((DaysBeforeYear(ts.year) + DaysBeforeMonth(ts.year, ts.month) + ts.day - 1) * 24
     + ts.hour) * 60 + ts.minute

----------------------------------------------------------------------------
(* Sequence helpers.                                                       *)

RECURSIVE SeqSum(_)
SeqSum(s) == IF s = <<>> THEN 0 ELSE Head(s) + SeqSum(Tail(s))

RECURSIVE Concat(_)
Concat(ss) == IF ss = <<>> THEN <<>> ELSE Head(ss) \o Concat(Tail(ss))

\* Take with the slice bound dropped: every element.
TakeAll(s, n) == s

Take(s, n) == SubSeq(s, 1, IF n < Len(s) THEN n ELSE Len(s))

RECURSIVE Insert(_, _)
Insert(v, s) ==
  IF s = <<>> THEN <<v>>
  ELSE IF v <= Head(s) THEN <<v>> \o s
  ELSE <<Head(s)>> \o Insert(v, Tail(s))

RECURSIVE Sorted(_)
Sorted(s) == IF s = <<>> THEN <<>> ELSE Insert(Head(s), Sorted(Tail(s)))

SetMin(S) == CHOOSE v \in S : \A w \in S : v <= w

SetMax(S) == CHOOSE v \in S : \A w \in S : v >= w

----------------------------------------------------------------------------
(* The input files.  Each holds a table of raw (t, x, y, z) samples.       *)

May(d, H, M) == ToMinutes(Timestamp(2021, 5, d, H, M))

Raw(t, x) == [t |-> t, x |-> x, y |-> 2 * x, z |-> 50]

Disk ==
  [ late_1 |-> << Raw(May(1, 21, 10), 120), Raw(May(1, 21, 40), 126),
                  Raw(May(1, 22, 20), 130),
                  Raw(May(2, 0, 15), 142), Raw(May(2, 0, 45), 140),
                  Raw(May(2, 0, 50), 148) >>,
    late_2 |-> << Raw(May(2, 1, 30), 150), Raw(May(2, 3, 5), 159) >>,
    exact  |-> [k \in 1..24 |-> Raw(May(2, k - 1, 0), 100 + 3 * k)],
    single |-> << Raw(May(2, 0, 20), 110) >>,
    early  |-> << Raw(ToMinutes(Timestamp(2021, 4, 30, 22, 5)), 90),
                  Raw(ToMinutes(Timestamp(2021, 4, 30, 23, 30)), 94),
                  Raw(May(1, 1, 10), 99) >> ]

FileLists ==
  { <<"late_1", "late_2">>, <<"late_1">>, <<"exact">>, <<"single">>, <<"early">> }

----------------------------------------------------------------------------
(* load_xyz                                                                *)

read_hdf(f) == Disk[f]

load_xyz(files) == Concat([i \in 1..Len(files) |-> read_hdf(files[i])])

----------------------------------------------------------------------------
(* make_contiguous                                                         *)

Col(tbl, c) == [i \in 1..Len(tbl) |-> tbl[i][c]]

FloorTo(t, freq) == t - (t % freq)

\* The median of the values of a bin that are not NaN; NaN for an empty bin.
Median(vals) ==
  LET IsValue(v) == v # NaN
      s == Sorted(SelectSeq(vals, IsValue))
      n == Len(s)
  IN IF n = 0 THEN NaN
     ELSE IF n % 2 = 1 THEN s[(n + 1) \div 2]
     ELSE (s[n \div 2] + s[n \div 2 + 1]) \div 2

\* tbl.resample('1H').median(): one row per hour from the first sample's
\* hour to the last sample's hour.
ResampleMedian(tbl, freq) ==
  IF tbl = <<>> THEN <<>>
  ELSE
    LET ts == {tbl[i].t : i \in 1..Len(tbl)}
        lo == FloorTo(SetMin(ts), freq)
        hi == FloorTo(SetMax(ts), freq)
        n  == (hi - lo) \div freq + 1
        Bin(k) ==
          LET InBin(r) == lo + freq * (k - 1) <= r.t /\ r.t < lo + freq * k
          IN SelectSeq(tbl, InBin)
    IN [k \in 1..n |->
          [t |-> lo + freq * (k - 1),
           x |-> Median(Col(Bin(k), "x")),
           y |-> Median(Col(Bin(k), "y")),
           z |-> Median(Col(Bin(k), "z"))]]

\* Series.notna()
NotNa(col) == [k \in DOMAIN col |-> IF col[k] # NaN THEN "True" ELSE "False"]

\* Series.interpolate(): linear between the nearest valid neighbours by
\* position; a leading NaN stays, a trailing NaN takes the last valid value.
Interpolate(col) ==
  LET Valid == {k \in DOMAIN col : col[k] # NaN}
  IN [k \in DOMAIN col |->
        IF col[k] # NaN THEN col[k]
        ELSE LET before == {i \in Valid : i < k}
                 after  == {j \in Valid : j > k}
             IN IF before = {} THEN NaN
                ELSE LET i == SetMax(before)
                     IN IF after = {} THEN col[i]
                        ELSE LET j == SetMin(after)
                             IN col[i] + ((col[j] - col[i]) * (k - i)) \div (j - i)]

\* The parameter df is not read: line 22 resamples the module-level xyz.
make_contiguous(df) ==
  LET resampled == ResampleMedian(xyz, Freq1H)
      original  == NotNa(Col(resampled, "x"))
      ix == Interpolate(Col(resampled, "x"))
      iy == Interpolate(Col(resampled, "y"))
      iz == Interpolate(Col(resampled, "z"))
  IN [outcome |-> "return",
      value |-> [k \in DOMAIN resampled |->
                   [t |-> resampled[k].t, x |-> ix[k], y |-> iy[k], z |-> iz[k],
                    original |-> original[k]]]]

----------------------------------------------------------------------------
(* backdate                                                                *)

\* DatetimeIndex.to_julian_date(), in units of 1/24 day: the Julian date
\* of 2021-01-01 00:00 is 2459215.5 days, 59021172 hours.
to_julian_date(ts) == [k \in DOMAIN ts |-> 59021172 + ts[k] \div 60]

\* date_range open on the left: start itself is left out.
DateRangeOpenLeft(start, end, freq) ==
  IF end < start + freq THEN <<>>
  ELSE [k \in 1..((end - start) \div freq) |-> start + k * freq]

\* pd.date_range(start, end, freq=freq): start, start + freq, ... up to end,
\* end included when it is on the grid.
date_range(start, end, freq) ==
  IF end < start THEN <<>>
  ELSE [k \in 1..((end - start) \div freq + 1) |-> start + (k - 1) * freq]

\* sm.add_constant(v) with has_constant='skip': a column of ones is put in
\* front of v unless v is itself a non-zero constant column.
add_constant(v) ==
  LET is_nonzero_const ==
        /\ \A i, j \in DOMAIN v : v[i] = v[j]
        /\ \A i \in DOMAIN v : v[i] # 0
  IN [const |-> ~is_nonzero_const, v |-> v]

NParams(X) == IF X.const THEN 2 ELSE 1

\* sm.OLS(y, X).fit(): the least-squares line through the samples.
OLS(y, X) == [nobs |-> Len(y), k |-> NParams(X), y |-> y, X |-> X]

\* f.predict(E) at one regressor value e.  The sums are taken about the
\* first regressor, which leaves the fitted line's value unchanged.
PredictAt(f, e) ==
  LET n   == f.nobs
      v0  == f.X.v[1]
      u   == [i \in 1..n |-> f.X.v[i] - v0]
      su  == SeqSum(u)
      sy  == SeqSum(f.y)
      suu == SeqSum([i \in 1..n |-> u[i] * u[i]])
      suy == SeqSum([i \in 1..n |-> u[i] * f.y[i]])
      sxx == n * suu - su * su
      sxy == n * suy - su * sy
  IN IF f.X.const
       THEN (sy * sxx + sxy * (n * (e - v0) - su)) \div (n * sxx)
       ELSE (sy \div n) + ((sy \div n) * (e - v0)) \div v0

\* f.predict(E): the dot product of E's columns with the parameters.
Predict(f, E) ==
  IF NParams(E) # f.k
    THEN [outcome |-> "ValueError", value |-> <<>>]
    ELSE [outcome |-> "return",
          value |-> [k \in DOMAIN E.v |-> PredictAt(f, E.v[k])]]

backdate(df, start, freq, sample) ==
  IF df = <<>> THEN [outcome |-> "IndexError", value |-> <<>>, sampled |-> <<>>]
  ELSE IF df[1].t > ToMinutes(start) THEN
    LET synth_ts == date_range(ToMinutes(start), df[1].t, freq)
        X    == add_constant(to_julian_date(Take(Col(df, "t"), sample)))
        y    == Take(Col(df, "x"), sample)
        f    == OLS(y, X)
        pred == Predict(f, add_constant(to_julian_date(synth_ts)))
        newx == [k \in DOMAIN synth_ts |->
                   [t |-> synth_ts[k], x |-> pred.value[k], y |-> NaN, z |-> NaN,
                    original |-> "NaN"]]
    IN IF pred.outcome # "return"
         THEN [outcome |-> pred.outcome, value |-> <<>>, sampled |-> f.y]
         ELSE [outcome |-> "return", value |-> newx \o df, sampled |-> f.y]
  ELSE \* line 47 reads the local xyzi, which line 46 alone assigns.
    [outcome |-> "UnboundLocalError", value |-> <<>>, sampled |-> <<>>]

----------------------------------------------------------------------------
(* calculate_disps                                                         *)

\* Series.loc[ts]: the x of every row labelled ts, in index order.  One
\* match is a scalar (a one-element sequence here), several are a Series,
\* none is a KeyError.
loc(tbl, ts) ==
  LET Labelled(r) == r.t = ToMinutes(ts)
  IN Col(SelectSeq(tbl, Labelled), "x")

Sub(a, b) == IF a = NaN \/ b = NaN THEN NaN ELSE a - b

\* xyzi.x.loc[en] - xyzi.x.loc[st]: scalar arithmetic broadcasts over a
\* Series; two Series with no label in common align to all-NaN.
Difference(a, b) ==
  IF Len(a) = 1 THEN [k \in DOMAIN b |-> Sub(a[1], b[k])]
  ELSE IF Len(b) = 1 THEN [k \in DOMAIN a |-> Sub(a[k], b[1])]
  ELSE [k \in 1..(Len(a) + Len(b)) |-> NaN]

\* np.round(d, 2) on the 0.001 grid: to the nearest 0.01, a tie to the even
\* hundredth.
Round2(d) ==
  LET RoundNat(n) ==
        LET q == n \div 10
            r == n % 10
        IN IF r < 5 THEN 10 * q
           ELSE IF r > 5 THEN 10 * (q + 1)
           ELSE IF q % 2 = 0 THEN 10 * q ELSE 10 * (q + 1)
  IN IF d = NaN THEN NaN
     ELSE IF d < 0 THEN 0 - RoundNat(0 - d) ELSE RoundNat(d)

Abs(d) == IF d = NaN THEN NaN ELSE IF d < 0 THEN 0 - d ELSE d

\* Line 61.
ResolveStart(year, bounds) ==
  Timestamp(year, bounds[1][1], bounds[1][2], 0, 0)

\* ResolveEnd with <= for < on line 62.
ResolveEndRollOnEqual(year, bounds) ==
  LET year_here == IF bounds[2][1] <= bounds[1][1] THEN year + 1 ELSE year
  IN Timestamp(year_here, bounds[2][1], bounds[2][2], 23, 0)

\* Lines 62-66.
ResolveEnd(year, bounds) ==
  LET year_here == IF bounds[2][1] < bounds[1][1] THEN year + 1 ELSE year
  IN Timestamp(year_here, bounds[2][1], bounds[2][2], 23, 0)

\* Lines 67-68 against the table tbl.
Displacement(tbl, st, en) ==
  LET a == loc(tbl, en)
      b == loc(tbl, st)
  IN IF a = <<>> \/ b = <<>>
       THEN [outcome |-> "KeyError", value |-> <<>>]
       ELSE LET disp == Difference(a, b)
            IN [outcome |-> "return",
                value |-> [k \in DOMAIN disp |-> Abs(Round2(disp[k]))]]

\* d[key] = value on a dict held as a function.
DictSet(d, key, value) ==
  [k \in DOMAIN d \cup {key} |-> IF k = key THEN value ELSE d[k]]

EmptyDict == <<>>

----------------------------------------------------------------------------
(* Arguments of the calls.  The __main__ block passes xyz, xyzi, the       *)
(* defaults of backdate, years = [2021] and the five periods of lines      *)
(* 89-95; the other values are further arguments the functions accept.     *)

Period(name, sm, sd, em, ed) == [name |-> name, bounds |-> <<<<sm, sd>>, <<em, ed>>>>]

Annual == Period("Annual", 5, 1, 4, 30)
Summer == Period("Summer", 5, 1, 8, 30)
Winter == Period("Winter", 9, 1, 4, 30)
ES     == Period("ES", 5, 1, 6, 30)
LS     == Period("LS", 7, 1, 8, 30)
Day1   == Period("Day1", 5, 1, 5, 1)
Day2   == Period("Day2", 5, 2, 5, 2)
Days   == Period("Days", 5, 1, 5, 2)

PeriodChoices ==
  { <<Annual, Summer, Winter, ES, LS>>, <<Day1, Day2, Days>>, <<Days, Day1>>,
    <<Day1, Winter>>, <<Day1, Summer>>, <<Annual, Day1>> }

YearChoices == { <<2021>>, <<2021, 2022>> }

DefaultStart == Timestamp(2021, 5, 1, 0, 0)

StartChoices == { DefaultStart, Timestamp(2021, 5, 2, 0, 0) }

DefaultSample == 1000

SmallSample == 2

SampleChoices == { SmallSample, SmallSample + 1, DefaultSample }

\* x(2021-05-01 00:00) = 100.00 and x(2022-04-30 23:00) = 103.456
Reg(t, x) == [t |-> t, x |-> x, y |-> NaN, z |-> NaN, original |-> "True"]

BoundaryTable ==
  << Reg(ToMinutes(Timestamp(2021, 5, 1, 0, 0)), 100000),
     Reg(ToMinutes(Timestamp(2022, 4, 30, 23, 0)), 103456) >>

MakeContiguousArgs == { xyz, read_hdf("exact") }

BackdateArgs == { xyzi, <<>> }

CalculateDispsArgs == { xyzi, BoundaryTable }

----------------------------------------------------------------------------
(* The __main__ block.                                                     *)

NoCall == [fn |-> "none"]

NoFrame == [active |-> FALSE]

NoResult == [outcome |-> "none"]

Init ==
  /\ pc = "L99"
  /\ xyz = <<>>
  /\ xyzi = <<>>
  /\ call = NoCall
  /\ frame = NoFrame
  /\ disps = NoResult

\* Line 99: xyz = load_xyz(files)
Main_load_xyz ==
  /\ pc = "L99"
  /\ \E files \in FileLists : xyz' = load_xyz(files)
  /\ pc' = "L100"
  /\ UNCHANGED <<xyzi, call, frame, disps>>

\* Line 100: xyzi = make_contiguous(df)
Main_make_contiguous ==
  /\ pc = "L100"
  /\ \E df \in MakeContiguousArgs :
        LET r == make_contiguous(df)
        IN /\ call' = [fn |-> "make_contiguous", df |-> df, xyz |-> xyz,
                       outcome |-> r.outcome, value |-> r.value]
           /\ xyzi' = r.value
  /\ pc' = "L101"
  /\ UNCHANGED <<xyz, frame, disps>>

\* Line 101: xyzi = backdate(df, start, freq, sample)
Main_backdate ==
  /\ pc = "L101"
  /\ \E df \in BackdateArgs, start \in StartChoices, sample \in SampleChoices :
        LET r == backdate(df, start, Freq1H, sample)
        IN /\ call' = [fn |-> "backdate", df |-> df, start |-> start,
                       sample |-> sample, outcome |-> r.outcome,
                       value |-> r.value, sampled |-> r.sampled]
           /\ IF r.outcome = "return"
                THEN xyzi' = r.value /\ pc' = "L103"
                ELSE xyzi' = xyzi /\ pc' = "crashed"
  /\ UNCHANGED <<xyz, frame, disps>>

\* Line 103 enters calculate_disps; line 57: store = {}
Disps_call ==
  /\ pc = "L103"
  /\ \E df \in CalculateDispsArgs, years \in YearChoices, periods \in PeriodChoices :
        frame' = [active |-> TRUE, df |-> df, years |-> years, periods |-> periods,
                  yi |-> 1, pj |-> 0, store |-> EmptyDict, store_year |-> EmptyDict,
                  resolved |-> {}]
  /\ pc' = "L58"
  /\ UNCHANGED <<xyz, xyzi, call, disps>>

\* Lines 58-59: the next year; store_year = {}
Disps_year ==
  /\ pc = "L58"
  /\ frame.yi <= Len(frame.years)
  /\ frame' = [frame EXCEPT !.store_year = EmptyDict, !.pj = 1]
  /\ pc' = "L60"
  /\ UNCHANGED <<xyz, xyzi, call, disps>>

\* Lines 60-69: one period of the year.  Line 67 reads the module-level
\* xyzi, not df; a KeyError leaves the function and ends the script.
Disps_period ==
  /\ pc = "L60"
  /\ frame.pj <= Len(frame.periods)
  /\ LET year   == frame.years[frame.yi]
         period == frame.periods[frame.pj]
         st     == ResolveStart(year, period.bounds)
         en     == ResolveEnd(year, period.bounds)
         r      == Displacement(xyzi, st, en)
     IN IF r.outcome = "return"
          THEN /\ frame' = [frame EXCEPT
                              !.store_year = DictSet(@, period.name, r.value),
                              !.pj = @ + 1,
                              !.resolved = @ \cup {[year |-> year, name |-> period.name,
                                               st |-> st, en |-> en]}]
               /\ pc' = "L60"
               /\ disps' = disps
          ELSE /\ frame' = [frame EXCEPT
                              !.resolved = @ \cup {[year |-> year, name |-> period.name,
                                               st |-> st, en |-> en]}]
               /\ pc' = "crashed"
               /\ disps' = [outcome |-> r.outcome, value |-> EmptyDict]
  /\ UNCHANGED <<xyz, xyzi, call>>

\* Line 70: store[year] = store_year
Disps_store_year ==
  /\ pc = "L60"
  /\ frame.pj > Len(frame.periods)
  /\ frame' = [frame EXCEPT !.store = DictSet(@, frame.years[frame.yi], frame.store_year),
                            !.yi = @ + 1]
  /\ pc' = "L58"
  /\ UNCHANGED <<xyz, xyzi, call, disps>>

\* Line 71: return store; line 103 binds disps
Disps_return ==
  /\ pc = "L58"
  /\ frame.yi > Len(frame.years)
  /\ disps' = [outcome |-> "return", value |-> frame.store]
  /\ pc' = "end"
  /\ UNCHANGED <<xyz, xyzi, call, frame>>

Next ==
  \/ Main_load_xyz
  \/ Main_make_contiguous
  \/ Main_backdate
  \/ Disps_call
  \/ Disps_year
  \/ Disps_period
  \/ Disps_store_year
  \/ Disps_return

Spec == Init /\ [][Next]_vars

----------------------------------------------------------------------------
(* Properties.                                                             *)

Present(tbl, ts) == \E i \in DOMAIN tbl : tbl[i].t = ToMinutes(ts)

XAt(tbl, ts) == tbl[CHOOSE i \in DOMAIN tbl : tbl[i].t = ToMinutes(ts)].x

\* A regularized series: on the hour, one row per hour, no hour missing.
IsHourly(tbl) ==
  /\ \A k \in DOMAIN tbl : tbl[k].t % Freq1H = 0
  /\ \A k \in 1..(Len(tbl) - 1) : tbl[k + 1].t = tbl[k].t + Freq1H

BackdateCalled == call.fn = "backdate"

StartsAfter == call.df # <<>> /\ call.df[1].t > ToMinutes(call.start)

\* calculate_disps has returned or raised.
Finished == frame.active /\ pc \in {"end", "crashed"}

Reported(year, name) ==
  /\ year \in DOMAIN disps.value
  /\ name \in DOMAIN disps.value[year]

\* What lines 57-71 compute when line 67 reads the table tbl.
RECURSIVE StoreYearFrom(_, _, _, _, _)
StoreYearFrom(tbl, year, periods, j, store_year) ==
  IF j > Len(periods) THEN [outcome |-> "return", value |-> store_year]
  ELSE LET b == periods[j].bounds
           r == Displacement(tbl, ResolveStart(year, b), ResolveEnd(year, b))
       IN IF r.outcome # "return" THEN [outcome |-> r.outcome, value |-> EmptyDict]
          ELSE StoreYearFrom(tbl, year, periods, j + 1,
                             DictSet(store_year, periods[j].name, r.value))

RECURSIVE StoreFrom(_, _, _, _, _)
StoreFrom(tbl, years, periods, i, store) ==
  IF i > Len(years) THEN [outcome |-> "return", value |-> store]
  ELSE LET r == StoreYearFrom(tbl, years[i], periods, 1, EmptyDict)
       IN IF r.outcome # "return" THEN r
          ELSE StoreFrom(tbl, years, periods, i + 1, DictSet(store, years[i], r.value))

\* C1: backdate of a series whose first timestamp is at or before the
\* reference start returns normally, and the series it returns is the input
\* series: same rows, nothing prepended.
C1_NoOpLaw ==
  (BackdateCalled /\ call.df # <<>> /\ call.df[1].t <= ToMinutes(call.start))
    => (call.outcome = "return" /\ call.value = call.df)

\* C2: on a call that passes the module-level table, when calculate_disps
\* is over it has not been aborted, and every (year, period) whose two
\* boundary timestamps are in the series is in the reported result, whatever
\* boundary another pair misses.
C2_PartialFailureTolerance ==
  (Finished /\ frame.df = xyzi)
    => /\ pc = "end"
       /\ \A i \in DOMAIN frame.years, j \in DOMAIN frame.periods :
            LET year == frame.years[i]
                p    == frame.periods[j]
            IN (/\ Present(frame.df, ResolveStart(year, p.bounds))
                /\ Present(frame.df, ResolveEnd(year, p.bounds)))
                 => Reported(year, p.name)

\* C3: the series backdate returns for a regularized series that starts
\* after the reference start has strictly increasing timestamps, one row for
\* every hour from the reference start to the last original hour.
C3_BackdatedIndexUnique ==
  (BackdateCalled /\ call.outcome = "return" /\ StartsAfter /\ IsHourly(call.df))
    => LET ts == Col(call.value, "t")
       IN /\ \A k \in 1..(Len(ts) - 1) : ts[k] < ts[k + 1]
          /\ \A k \in DOMAIN ts : ts[k] = ToMinutes(call.start) + (k - 1) * Freq1H
          /\ ts[Len(ts)] = call.df[Len(call.df)].t

\* C4: the outcome of calculate_disps(df, years, periods) is the one its
\* body computes from the x values of df, whatever the module-level xyzi
\* holds.
C4_ResultFromArgument ==
  Finished => disps = StoreFrom(frame.df, frame.years, frame.periods, 1, EmptyDict)

\* C5: every (year, period) that calculate_disps has resolved has its start
\* at (year, sm, sd) 00:00 and its end at (em, ed) 23:00, in year + 1 if
\* em < sm and in year otherwise.
C5_PeriodResolution ==
  frame.active =>
    \A d \in frame.resolved : \A j \in DOMAIN frame.periods :
      frame.periods[j].name = d.name =>
        LET b  == frame.periods[j].bounds
            sm == b[1][1]
            sd == b[1][2]
            em == b[2][1]
            ed == b[2][2]
        IN /\ d.st = [year |-> d.year, month |-> sm, day |-> sd, hour |-> 0, minute |-> 0]
           /\ d.en = [year |-> IF em < sm THEN d.year + 1 ELSE d.year,
                      month |-> em, day |-> ed, hour |-> 23, minute |-> 0]

\* Winter {(9,1),(4,30)} of 2021 has been resolved, to 2021-09-01 00:00
\* and 2022-04-30 23:00.
C5_Witness ==
  /\ frame.active
  /\ \E d \in frame.resolved :
       /\ d.name = "Winter" /\ d.year = 2021
       /\ d.st = Timestamp(2021, 9, 1, 0, 0)
       /\ d.en = Timestamp(2022, 4, 30, 23, 0)
       /\ ToMinutes(d.en) - ToMinutes(d.st) = (242 * 24 - 1) * 60

\* C6: on a call that passes the module-level table and returns, the value
\* reported for every (year, period) whose two boundary timestamps are in
\* the series is the one number abs(round(x_end - x_start, 2)), which is
\* not negative.
C6_DisplacementValue ==
  (pc = "end" /\ frame.df = xyzi)
    => \A i \in DOMAIN frame.years, j \in DOMAIN frame.periods :
         LET year == frame.years[i]
             p    == frame.periods[j]
             st   == ResolveStart(year, p.bounds)
             en   == ResolveEnd(year, p.bounds)
         IN (Present(frame.df, st) /\ Present(frame.df, en))
              => /\ Reported(year, p.name)
                 /\ disps.value[year][p.name]
                      = << Abs(Round2(XAt(frame.df, en) - XAt(frame.df, st))) >>
                 /\ disps.value[year][p.name][1] >= 0

\* C7: a series that backdate returns starts at or before the reference
\* start.
C7_PostBackdating ==
  (BackdateCalled /\ call.outcome = "return")
    => (call.value # <<>> /\ call.value[1].t <= ToMinutes(call.start))

\* backdate has returned the series for an input that started after the
\* reference start.
C7_Witness ==
  /\ BackdateCalled /\ call.outcome = "return" /\ StartsAfter
  /\ IsHourly(call.df)
  /\ Len(call.value) > Len(call.df)

\* C8: make_contiguous(df) returns one row for every hour from df's first
\* sample to its last, and original is true in a row if and only if a
\* sample of df fell in that hour.
C8_OriginalFlag ==
  call.fn = "make_contiguous"
    => LET df == call.df
           ts == {df[i].t : i \in DOMAIN df}
           lo == FloorTo(SetMin(ts), Freq1H)
           hi == FloorTo(SetMax(ts), Freq1H)
       IN /\ Col(call.value, "t") = [k \in 1..((hi - lo) \div Freq1H + 1) |->
                                       lo + (k - 1) * Freq1H]
          /\ \A k \in DOMAIN call.value :
               (call.value[k].original = "True")
                 <=> (\E i \in DOMAIN df : FloorTo(df[i].t, Freq1H) = call.value[k].t)

\* C9: make_contiguous of an hourly series with no gaps returns that
\* series: the same timestamps and the same x, y and z.
C9_Idempotence ==
  (call.fn = "make_contiguous" /\ IsHourly(call.df))
    => [k \in DOMAIN call.value |->
          [t |-> call.value[k].t, x |-> call.value[k].x,
           y |-> call.value[k].y, z |-> call.value[k].z]]
       = [k \in DOMAIN call.df |->
          [t |-> call.df[k].t, x |-> call.df[k].x,
           y |-> call.df[k].y, z |-> call.df[k].z]]

====
